---------------------------- MODULE Spec2Model ----------------------------
(***************************************************************************)
(* Model of three command-line tools of the repository:                    *)
(*   speccy-kit/tools/condenser.py  (near-duplicate corpus condenser)      *)
(*   speccy-kit/tools/chunker.py    (overlapping chunk splitter)           *)
(*   tools/prompt_annealer.py       (simulated-annealing prompt trimmer)   *)
(* Each tool is a separate process; each has its own specification         *)
(* (SpecCondense, SpecChunk, SpecAnneal) over its own variables.           *)
(*                                                                         *)
(* Texts are sequences of one-character strings.  Real numbers are kept    *)
(* as scaled integers (percent, hundredths, thousandths) or as fractions.  *)
(***************************************************************************)
EXTENDS Integers, Sequences, FiniteSets, TLC

VARIABLES
  \* ---- condenser.py --------------------------------------------------
  fs,          \* the pack directory: path -> [exists, lines]
  pc,          \* position of main()/condense_index()
  jacc_min,    \* similarity threshold in percent (argv[2], default 88)
  pos,         \* number of lines of the index consumed by the read loop
  keep,        \* condense_index: keep
  archived,    \* condense_index: archived
  seen_hash,   \* condense_index: seen_hash
  buckets,     \* condense_index: buckets, as a list of [key, idx, sh]
  ret,         \* value returned by condense_index: <<kept, arch>>
  corpus0,     \* history: the lines of index.jsonl when the current run began
  runs,        \* number of runs of main() started so far
  \* ---- chunker.py ----------------------------------------------------
  cpc,         \* position of chunker main()
  content,     \* the source text
  max_chars,   \* argv[3]
  overlap,     \* argv[4]
  start,       \* loop variable
  chunks,      \* list of chunk texts
  temp_file,   \* records appended to the temp file
  \* ---- prompt_annealer.py ---------------------------------------------
  apc,               \* INIT, ITERATING, DONE or KILLED
  iterations,        \* --iterations
  temperature,       \* --temperature, in hundredths
  num_samples,       \* len(sample_inputs)
  baseline_text,     \* contents of the prompt file
  baseline_vectors,  \* embeddings of the baseline outputs
  baseline_candidate,
  best_candidate,
  current_lines,
  step,              \* the next value of the loop variable
  mutated_lines,     \* locals of the last loop iteration
  candidate,
  draw,              \* random.random() of the last iteration, in thousandths
  accept,
  output,            \* the file at output_path: [exists, text]
  empty_embedding,   \* model.encode of an empty output (the model is external)
  \* ---- lesson_compactor.py --------------------------------------------
  lpc,            \* position of lesson_compactor main()
  lessons,        \* the *.yml files of the lessons directory, in glob order
  metas,          \* list of [f, t, sh, n]
  visited,        \* number of metas the dedup loop has consumed
  canon,          \* list of [f, t, sh]
  merged,         \* list of <<f, dup>>
  lesson_dir,     \* names of the files in speccy-lab/lessons
  archive_dir,    \* names of the files in speccy-lab/lessons/_archive
  manifest,       \* manifest["merged"]: list of [src, into]
  manifest_file   \* _compacted/compactor.json: [exists, merged]

condVars  == <<fs, pc, jacc_min, pos, keep, archived, seen_hash, buckets, ret, corpus0, runs>>
chunkVars == <<cpc, content, max_chars, overlap, start, chunks, temp_file>>
annVars   == <<apc, iterations, temperature, num_samples, baseline_text,
               baseline_vectors, baseline_candidate, best_candidate,
               current_lines, step, mutated_lines, candidate, draw, accept,
               output, empty_embedding>>
lessVars  == <<lpc, lessons, metas, visited, canon, merged, lesson_dir,
               archive_dir, manifest, manifest_file>>
vars      == <<condVars, chunkVars, annVars, lessVars>>

-----------------------------------------------------------------------------
(* Generic helpers *)

Max(a, b) == IF a >= b THEN a ELSE b
Min(a, b) == IF a <= b THEN a ELSE b

\* all sequences over S of length 0..n
SeqsUpTo(S, n) == UNION { [1..k -> S] : k \in 0..n }

\* the subsequence of s selected by the boolean mask m (same length)
RECURSIVE Pick(_, _, _)
Pick(s, m, want) ==
  IF s = <<>> THEN <<>>
  ELSE (IF m[1] = want THEN <<s[1]>> ELSE <<>>) \o Pick(Tail(s), Tail(m), want)

-----------------------------------------------------------------------------
(* Text primitives used by condenser.py *)

IsSpace(c) == c = " "

\* str.lower() on the modelled alphabet
LowerChar(c) == IF c = "A" THEN "a" ELSE c

Lower(t) == [i \in 1..Len(t) |-> LowerChar(t[i])]

RECURSIVE LStrip(_)
LStrip(t) == IF t # <<>> /\ IsSpace(t[1]) THEN LStrip(Tail(t)) ELSE t

RECURSIVE RStrip(_)
RStrip(t) ==
  IF t # <<>> /\ IsSpace(t[Len(t)]) THEN RStrip(SubSeq(t, 1, Len(t) - 1)) ELSE t

\* str.strip()
Strip(t) == RStrip(LStrip(t))

\* re.sub(r'\s+', ' ', t): every maximal run of whitespace becomes one space
RECURSIVE CollapseSpaces(_)
CollapseSpaces(t) ==
  IF t = <<>> THEN <<>>
  ELSE IF IsSpace(t[1])
       THEN <<" ">> \o CollapseSpaces(LStrip(t))
       ELSE <<t[1]>> \o CollapseSpaces(Tail(t))

\* re.sub(r'\s+', ' ', text.lower()).strip()
Normalize(text) == Strip(CollapseSpaces(Lower(text)))

\* shingle length k (default argument of shingles)
ShingleK == 8

shingles(text) ==
  LET t == Normalize(text) IN
  IF t = <<>> THEN {}
  ELSE { SubSeq(t, i, i + ShingleK - 1) : i \in 1..Max(0, Len(t) - ShingleK + 1) }

\* jaccard(a, b) as a fraction <<numerator, denominator>>
jaccard(a, b) ==
  IF a = {} \/ b = {} THEN <<0, 1>>
  ELSE LET inter == Cardinality(a \cap b)
           union == Cardinality(a \cup b)
       IN IF union # 0 THEN <<inter, union>> ELSE <<0, 1>>

\* jaccard(...) >= jacc_min, with jacc_min in percent
MeetsThreshold_Reversed(j, tau) == j[1] * 100 <= tau * j[2]

MeetsThreshold(j, tau) == j[1] * 100 >= tau * j[2]

\* The SHA-256 digest is modelled as an injective numeral of the text (an
\* ideal, collision-free digest): base-5 digits, one per character.
CharCode(c) == CASE c = "a" -> 1 [] c = "A" -> 2 [] c = "b" -> 3 [] OTHER -> 4

RECURSIVE Sha256(_)
Sha256(t) == IF t = <<>> THEN 0 ELSE CharCode(t[1]) + 5 * Sha256(Tail(t))

\* simkey: the leading 8 bytes of the digest of the normalized text; the
\* modelled digest is already shorter than 64 bits, so the prefix keeps it all
simkey(text) == Sha256(Normalize(text))


-----------------------------------------------------------------------------
(* Corpus lines and JSON *)

\* A JSON object of the corpus: the fields the condenser reads or copies.
\* has_text = FALSE stands for a missing or null 'text'.
Obj(src, has, t) == [source |-> src, has_text |-> has, text |-> t]

NoObj == Obj(0, FALSE, <<>>)

\* A line of a .jsonl file: blank (empty after strip), garbage (json.loads
\* raises), scalar (valid JSON that is no object) or object.
Line(kind, o) == [kind |-> kind, obj |-> o]

\* json.loads(line): ok = FALSE when it raises
JsonLoads(line) ==
  [ok      |-> line.kind \in {"object", "scalar"},
   is_dict |-> line.kind = "object",
   val     |-> line.obj]

\* json.dumps(obj, ensure_ascii=False) + '\n'
JsonDumps(o) == Line("object", o)

DumpAll(objs) == [i \in 1..Len(objs) |-> JsonDumps(objs[i])]

\* (obj.get('text') or '').strip()
TrimmedText_NoStrip(o) == IF o.has_text THEN o.text ELSE <<>>

TrimmedText(o) == Strip(IF o.has_text THEN o.text ELSE <<>>)

\* hashlib.sha256(txt.encode('utf-8')).hexdigest()
ExactDigest(txt) == Sha256(txt)

\* the members of bucket `key`, in insertion order
Bucket(bks, key) ==
  LET InKey(e) == e.key = key IN SelectSeq(bks, InKey)

\* lines 47-50: some member of the bucket is at least jacc_min similar
IsNear(sh, bucket, tau) ==
  \E i \in 1..Len(bucket) : MeetsThreshold(jaccard(sh, bucket[i].sh), tau)

\* the local state of condense_index before the first line
CondenseState0 ==
  [keep |-> <<>>, archived |-> <<>>, seen_hash |-> {}, buckets |-> <<>>,
   raised |-> FALSE]

\* line 40: an exact duplicate is archived
OnExactDup_Dropped(st, o) == st

OnExactDup(st, o) == [st EXCEPT !.archived = Append(@, o)]

\* lines 51-52: a near duplicate is archived and joins no bucket
OnNearDup_AlsoKept(st, o) ==
  [st EXCEPT !.archived = Append(@, o), !.keep = Append(@, o)]

OnNearDup(st, o) == [st EXCEPT !.archived = Append(@, o)]

\* lines 54-56: the record is accepted
OnAccept(st, o, ex, key, sh) ==
  [st EXCEPT
     !.seen_hash = @ \cup {ex},
     !.buckets   = Append(@, [key |-> key, idx |-> Len(st.keep), sh |-> sh]),
     !.keep      = Append(@, o)]

\* One pass of the read loop (lines 27-56) over one line.
\* raised = TRUE: an exception left the loop (obj.get on a non-object).
CondenseLine(st, line, tau) ==
  IF line.kind = "blank" THEN st
  ELSE LET parsed == JsonLoads(line) IN
  IF ~parsed.ok THEN st
  ELSE IF ~parsed.is_dict THEN [st EXCEPT !.raised = TRUE]
  ELSE
    LET o   == parsed.val
        txt == TrimmedText(o)
    IN
    IF txt = <<>> THEN st
    ELSE
      LET ex == ExactDigest(txt) IN
      IF ex \in st.seen_hash
      THEN OnExactDup(st, o)
      ELSE
        LET key  == simkey(txt)
            sh   == shingles(txt)
            near == IsNear(sh, Bucket(st.buckets, key), tau)
        IN
        IF near THEN OnNearDup(st, o) ELSE OnAccept(st, o, ex, key, sh)

\* the whole read loop over a file's lines; stops at the first exception
RECURSIVE CondenseFrom(_, _, _)
CondenseFrom(st, lines, tau) ==
  IF lines = <<>> \/ st.raised THEN st
  ELSE CondenseFrom(CondenseLine(st, lines[1], tau), Tail(lines), tau)

CondenseAll(lines, tau) == CondenseFrom(CondenseState0, lines, tau)

-----------------------------------------------------------------------------
(* condenser.py: main() over one pack directory *)

IndexPath   == "index.jsonl"

OutPath_InPlace == IndexPath

OutPath     == "index.compact.jsonl"
ArchivePath == "index.archive.jsonl"
Paths       == {IndexPath, OutPath, ArchivePath}

Absent       == [exists |-> FALSE, lines |-> <<>>]
File(lines)  == [exists |-> TRUE, lines |-> lines]

\* bounds of the condenser model
MaxLines == 3
MaxRuns  == 2

DefaultJaccMin == 88
Thresholds     == {0, DefaultJaccMin, 100}

TextAAAA     == <<"A", "A", "A", "A">>
TextPadded   == <<" ", "A", "A", "A", "A", " ">>
TextLower    == <<"a", "a", "a", "a">>
TextBlank    == <<" ", " ">>
TextLong     == <<"a", "a", "a", "a", " ", "a", "a", "a", "b">>
TextLongVar  == <<"A", "A", "A", "A", " ", " ", "a", "a", "a", "b">>

\* the lines a corpus file of the model is made of
LinePool ==
  { Line("object", Obj(1, TRUE, TextAAAA)),
    Line("object", Obj(2, TRUE, TextPadded)),
    Line("object", Obj(1, TRUE, TextLower)),
    Line("object", Obj(1, TRUE, TextBlank)),
    Line("object", Obj(1, TRUE, TextLong)),
    Line("object", Obj(2, TRUE, TextLongVar)),
    Line("object", Obj(1, FALSE, <<>>)),
    Line("scalar", NoObj),
    Line("garbage", NoObj),
    Line("blank", NoObj) }

Running == {"read", "write_out", "write_arc", "returned", "swapped"}

CondenseInit ==
  /\ \E lines \in SeqsUpTo(LinePool, MaxLines) :
        fs = [p \in Paths |-> IF p = IndexPath THEN File(lines) ELSE Absent]
  /\ jacc_min \in Thresholds
  /\ pc = "idle"
  /\ pos = 0
  /\ keep = <<>>
  /\ archived = <<>>
  /\ seen_hash = {}
  /\ buckets = <<>>
  /\ ret = <<0, 0>>
  /\ corpus0 = fs[IndexPath].lines
  /\ runs = 0

\* main() reaches a pack and calls condense_index (lines 75-79, 21-26)
Start ==
  /\ pc \in {"idle", "done", "crashed", "aborted"}
  /\ runs < MaxRuns
  /\ fs[IndexPath].exists
  /\ runs' = runs + 1
  /\ corpus0' = fs[IndexPath].lines
  /\ pc' = "read"
  /\ pos' = 0
  /\ keep' = <<>>
  /\ archived' = <<>>
  /\ seen_hash' = {}
  /\ buckets' = <<>>
  /\ ret' = <<0, 0>>
  /\ UNCHANGED <<fs, jacc_min>>
  /\ UNCHANGED <<chunkVars, annVars, lessVars>>

\* one iteration of `for line in f` (lines 27-56)
ReadLine ==
  /\ pc = "read"
  /\ pos < Len(fs[IndexPath].lines)
  /\ LET st  == [keep |-> keep, archived |-> archived, seen_hash |-> seen_hash,
                 buckets |-> buckets, raised |-> FALSE]
         st2 == CondenseLine(st, fs[IndexPath].lines[pos + 1], jacc_min)
     IN /\ keep' = st2.keep
        /\ archived' = st2.archived
        /\ seen_hash' = st2.seen_hash
        /\ buckets' = st2.buckets
        /\ pc' = IF st2.raised THEN "aborted" ELSE "read"
  /\ pos' = pos + 1
  /\ UNCHANGED <<fs, jacc_min, ret, corpus0, runs>>
  /\ UNCHANGED <<chunkVars, annVars, lessVars>>

\* open(out_path, 'w') truncates or creates the compact file (line 58)
OpenOut ==
  /\ pc = "read"
  /\ pos = Len(fs[IndexPath].lines)
  /\ fs' = [fs EXCEPT ![OutPath] = File(<<>>)]
  /\ pc' = "write_out"
  /\ pos' = 0
  /\ UNCHANGED <<jacc_min, keep, archived, seen_hash, buckets, ret, corpus0, runs>>
  /\ UNCHANGED <<chunkVars, annVars, lessVars>>

\* wf.write(json.dumps(obj) + '\n') for the next kept record (lines 59-60)
WriteKept ==
  /\ pc = "write_out"
  /\ pos < Len(keep)
  /\ fs' = [fs EXCEPT ![OutPath] = File(Append(@.lines, JsonDumps(keep[pos + 1])))]
  /\ pos' = pos + 1
  /\ UNCHANGED <<pc, jacc_min, keep, archived, seen_hash, buckets, ret, corpus0, runs>>
  /\ UNCHANGED <<chunkVars, annVars, lessVars>>

\* the compact file is closed; the archive is opened for append only when
\* something was archived (line 61), else condense_index returns (line 65)
CloseOut ==
  /\ pc = "write_out"
  /\ pos = Len(keep)
  /\ pos' = 0
  /\ IF archived # <<>>
     THEN /\ pc' = "write_arc"
          /\ fs' = [fs EXCEPT ![ArchivePath] = File(@.lines)]
          /\ ret' = ret
     ELSE /\ pc' = "returned"
          /\ fs' = fs
          /\ ret' = <<Len(keep), Len(archived)>>
  /\ UNCHANGED <<jacc_min, keep, archived, seen_hash, buckets, corpus0, runs>>
  /\ UNCHANGED <<chunkVars, annVars, lessVars>>

\* af.write(json.dumps(obj) + '\n') for the next archived record (lines 63-64)
AppendArchive ==
  /\ pc = "write_arc"
  /\ pos < Len(archived)
  /\ fs' = [fs EXCEPT ![ArchivePath] = File(Append(@.lines, JsonDumps(archived[pos + 1])))]
  /\ pos' = pos + 1
  /\ UNCHANGED <<pc, jacc_min, keep, archived, seen_hash, buckets, ret, corpus0, runs>>
  /\ UNCHANGED <<chunkVars, annVars, lessVars>>

\* return len(keep), len(archived) (line 65)
Return ==
  /\ pc = "write_arc"
  /\ pos = Len(archived)
  /\ pc' = "returned"
  /\ pos' = 0
  /\ ret' = <<Len(keep), Len(archived)>>
  /\ UNCHANGED <<fs, jacc_min, keep, archived, seen_hash, buckets, corpus0, runs>>
  /\ UNCHANGED <<chunkVars, annVars, lessVars>>

\* os.replace(out, p) succeeds: one atomic rename (line 82)
Replace ==
  /\ pc = "returned"
  /\ fs' = [p \in Paths |->
              IF p = IndexPath THEN fs[OutPath]
              ELSE IF p = OutPath THEN Absent
              ELSE fs[p]]
  /\ pc' = "swapped"
  /\ UNCHANGED <<jacc_min, pos, keep, archived, seen_hash, buckets, ret, corpus0, runs>>
  /\ UNCHANGED <<chunkVars, annVars, lessVars>>

\* os.replace raises and the exception is swallowed (lines 83-84)
ReplaceFails ==
  /\ pc = "returned"
  /\ pc' = "done"
  /\ UNCHANGED <<fs, jacc_min, pos, keep, archived, seen_hash, buckets, ret, corpus0, runs>>
  /\ UNCHANGED <<chunkVars, annVars, lessVars>>

\* the totals are printed and main() ends (lines 85-87)
Finish ==
  /\ pc = "swapped"
  /\ pc' = "done"
  /\ UNCHANGED <<fs, jacc_min, pos, keep, archived, seen_hash, buckets, ret, corpus0, runs>>
  /\ UNCHANGED <<chunkVars, annVars, lessVars>>

\* the process is killed at any point of a run; its memory is lost, the
\* files stay as they are
Crash ==
  /\ pc \in Running
  /\ pc' = "crashed"
  /\ pos' = 0
  /\ keep' = <<>>
  /\ archived' = <<>>
  /\ seen_hash' = {}
  /\ buckets' = <<>>
  /\ ret' = <<0, 0>>
  /\ UNCHANGED <<fs, jacc_min, corpus0, runs>>
  /\ UNCHANGED <<chunkVars, annVars, lessVars>>

CondenseNext ==
  \/ Start \/ ReadLine \/ OpenOut \/ WriteKept \/ CloseOut \/ AppendArchive
  \/ Return \/ Replace \/ ReplaceFails \/ Finish \/ Crash

-----------------------------------------------------------------------------
(* Properties of the condenser *)

\* the parsed records of a stream whose text is non-empty after trimming
RECURSIVE ValidObjs(_)
ValidObjs(lines) ==
  IF lines = <<>> THEN <<>>
  ELSE LET l == lines[1] IN
       (IF l.kind = "object" /\ l.obj.has_text /\ Strip(l.obj.text) # <<>>
        THEN <<l.obj>> ELSE <<>>) \o ValidObjs(Tail(lines))

IndexLines == fs[IndexPath].lines

\* C1: no two kept records have the same trimmed text, at any point of the
\* read loop and after it; and a stream whose records are the text "AAAA"
\* twice returns one kept record and one archived record.
C1_NoDuplicateKept ==
  /\ \A i, j \in 1..Len(keep) :
        i < j => Strip(keep[i].text) # Strip(keep[j].text)
  /\ LET valid == ValidObjs(corpus0) IN
     ( /\ pc = "returned"
       /\ Len(valid) = 2
       /\ \A i \in 1..2 : Strip(valid[i].text) = TextAAAA )
     => /\ ret = <<1, 1>>
        /\ keep = <<valid[1]>>
        /\ archived = <<valid[2]>>

C1_Witness ==
  /\ pc = "returned"
  /\ Len(corpus0) = 2
  /\ \A i \in 1..2 : corpus0[i].kind = "object" /\ corpus0[i].obj.text = TextAAAA
  /\ Len(keep) = 1 /\ Len(archived) = 1

\* C2: when condense_index returns, kept and archived are two subsequences
\* of the stream's records with non-empty trimmed text that together take
\* every such record exactly once, in input order; the returned counts are
\* their lengths; records with empty or whitespace-only text are in neither.
C2_Partition ==
  pc = "returned" =>
    LET valid == ValidObjs(corpus0) IN
    /\ \E m \in [1..Len(valid) -> BOOLEAN] :
          /\ keep = Pick(valid, m, TRUE)
          /\ archived = Pick(valid, m, FALSE)
    /\ ret = <<Len(keep), Len(archived)>>
    /\ \A i \in 1..Len(keep) : keep[i].has_text /\ Strip(keep[i].text) # <<>>
    /\ \A i \in 1..Len(archived) :
          archived[i].has_text /\ Strip(archived[i].text) # <<>>

C2_Witness ==
  /\ pc = "returned"
  /\ keep # <<>>
  /\ archived # <<>>
  /\ \E i \in 1..Len(corpus0) :
        corpus0[i].kind = "object" /\ corpus0[i].obj.text = TextBlank

\* C3: condensing the kept log of a finished condensation again, with the
\* same threshold, keeps every record in the same order and archives nothing.
C3_Idempotent ==
  pc = "returned" =>
    LET again == CondenseAll(DumpAll(keep), jacc_min) IN
    /\ ~again.raised
    /\ again.keep = keep
    /\ again.archived = <<>>

C3_Witness ==
  /\ pc = "returned"
  /\ Len(keep) >= 2
  /\ archived # <<>>
  /\ CondenseAll(DumpAll(keep), jacc_min).keep = keep

\* C4: the file at the corpus path always holds the complete stream the
\* run started from (up to the swap) or the complete kept log of that
\* stream (after the swap), also after a crash at any point.
KeptLogOf(lines, tau) == DumpAll(CondenseAll(lines, tau).keep)

C4_AtomicSwap ==
  /\ fs[IndexPath].exists
  /\ pc \in {"read", "write_out", "write_arc", "returned", "aborted"}
        => IndexLines = corpus0
  /\ pc = "swapped" => IndexLines = KeptLogOf(corpus0, jacc_min)
  /\ IndexLines = corpus0 \/ IndexLines = KeptLogOf(corpus0, jacc_min)

\* a crash while the compact file is half written: the corpus is intact
C4_Witness ==
  /\ pc = "crashed"
  /\ fs[OutPath].exists
  /\ Len(fs[OutPath].lines) < Len(KeptLogOf(corpus0, jacc_min))
  /\ fs[OutPath].lines # <<>>
  /\ IndexLines = corpus0

\* the thresholds of [0, 1] the monotonicity is compared on, in percent
ThresholdGrid == {0, 50, DefaultJaccMin, 100}

\* the number of records of a stream that the read loop archives in the
\* near-duplicate branch (lines 51-52): the record is archived although its
\* digest was not in seen_hash
RECURSIVE NearCountFrom(_, _, _)
NearCountFrom(st, lines, tau) ==
  IF lines = <<>> \/ st.raised THEN 0
  ELSE LET l    == lines[1]
           nxt  == CondenseLine(st, l, tau)
           near == /\ Len(nxt.archived) > Len(st.archived)
                   /\ Sha256(Strip(l.obj.text)) \notin st.seen_hash
       IN (IF near THEN 1 ELSE 0) + NearCountFrom(nxt, Tail(lines), tau)

NearCount(lines, tau) == NearCountFrom(CondenseState0, lines, tau)

\* C11: for the stream a run condensed, raising the threshold never raises
\* the number of records archived through the near-duplicate check: for
\* thresholds t1 <= t2 the count at t2 is at most the count at t1; the run's
\* own threshold is one of them, and its near duplicates are among the
\* records it archived. Stated for the first run on a pack: every stream a
\* later run condenses is also the stream of some first run.
C11_ThresholdMonotone ==
  (pc = "returned" /\ runs = 1) =>
    LET count == [t \in ThresholdGrid |-> NearCount(corpus0, t)] IN
    /\ \A t1, t2 \in ThresholdGrid : t1 <= t2 => count[t2] <= count[t1]
    /\ jacc_min \in ThresholdGrid
    /\ count[jacc_min] <= Len(archived)

\* a stream whose near-duplicate count strictly falls as the threshold rises:
\* two records are near duplicates at threshold 0, and at the run's threshold
\* 1 the second is kept and the third is its exact duplicate
C11_Witness ==
  /\ pc = "returned"
  /\ runs = 1
  /\ jacc_min = 100
  /\ NearCount(corpus0, 0) = 2
  /\ NearCount(corpus0, 100) = 0
  /\ Len(archived) = 1

\* the lines of a stream that are well-formed records or blank
WellFormedLines(lines) ==
  LET Ok(l) == l.kind \in {"object", "blank"} IN SelectSeq(lines, Ok)

\* C13: a line that is not a well-formed record never aborts the
\* condensation, and when the read loop returns, kept and archived are those
\* of the stream without its malformed lines.
C13_SkipsMalformed ==
  /\ pc # "aborted"
  /\ pc = "returned" =>
       LET ref == CondenseAll(WellFormedLines(corpus0), jacc_min) IN
       /\ keep = ref.keep
       /\ archived = ref.archived

\* C20: when a run has swapped the corpus, the archive log holds each record
\* that run archived exactly once, whatever happened to earlier runs on the
\* same corpus (the archive log does not exist before the first run).
C20_ArchivedOnce ==
  LET arch == CondenseAll(corpus0, jacc_min).archived IN
  (pc = "swapped" /\ arch # <<>>) => fs[ArchivePath].lines = DumpAll(arch)

-----------------------------------------------------------------------------
(* chunker.py *)

\* bounds of the chunker model
MaxLen    == 5    \* longest source text
MaxWindow == 3    \* largest max_chars and overlap
ChunkCap  == 7    \* chunks after which a loop that cannot end is cut off

ChunkAlphabet == {"a", "b"}

\* Python's s[a:b] for any integers a, b
PySlice(s, a, b) ==
  LET n  == Len(s)
      lo == IF a < 0 THEN Max(0, a + n) ELSE Min(a, n)
      hi == IF b < 0 THEN Max(0, b + n) ELSE Min(b, n)
  IN SubSeq(s, lo + 1, hi)

\* lines 26-28: end = start + max_chars, clamped to the text length
ChunkEnd_Short(st, mx, n) == st + mx - 1

ChunkEnd(st, mx, n) == IF st + mx > n THEN n ELSE st + mx

\* line 33: start += max_chars - overlap
NextStart_NoOverlap(st, mx, ov) == st + mx

NextStart(st, mx, ov) == st + mx - ov

\* lines 37-42: the record written for a chunk
ChunkRecord(sha, chunk) ==
  [pack_id |-> "pack", source |-> "doc.md", sha256 |-> sha, text |-> chunk]

ChunkInit ==
  /\ cpc = "loop"
  /\ content \in SeqsUpTo(ChunkAlphabet, MaxLen)
  /\ max_chars \in 1..MaxWindow
  /\ overlap \in 0..MaxWindow
  /\ start = 0
  /\ chunks = <<>>
  /\ temp_file = <<>>

\* one iteration of `while start < len(content)` (lines 25-33); a loop that
\* makes no progress is followed for ChunkCap chunks
ChunkStep ==
  /\ cpc = "loop"
  /\ start < Len(content)
  /\ overlap < max_chars \/ Len(chunks) < ChunkCap
  /\ LET end == ChunkEnd(start, max_chars, Len(content))
     IN chunks' = Append(chunks, PySlice(content, start, end))
  /\ start' = NextStart(start, max_chars, overlap)
  /\ UNCHANGED <<cpc, content, max_chars, overlap, temp_file>>
  /\ UNCHANGED <<condVars, annVars, lessVars>>

\* the loop has ended: the records are appended to the temp file (lines 35-43)
ChunkWrite ==
  /\ cpc = "loop"
  /\ start >= Len(content)
  /\ temp_file' = temp_file \o
        [i \in 1..Len(chunks) |-> ChunkRecord(Sha256(content), chunks[i])]
  /\ cpc' = "done"
  /\ UNCHANGED <<content, max_chars, overlap, start, chunks>>
  /\ UNCHANGED <<condVars, annVars, lessVars>>

ChunkNext == ChunkStep \/ ChunkWrite

-----------------------------------------------------------------------------
(* Properties of the chunker *)

\* ceil(a / b) for b > 0
CeilDiv(a, b) == -((-a) \div b)

ValidWindow == max_chars >= 1 /\ overlap >= 0 /\ overlap < max_chars

\* C8: with overlap >= max_chars the splitter fails with InvalidParameters
\* before it produces any record: it is never past the parameter check with
\* a chunk made or with a normal end (stated for a non-empty text, where the
\* loop body is entered).
C8_InvalidParameters ==
  (overlap >= max_chars /\ content # <<>>) =>
    /\ cpc \in {"loop", "invalid_parameters"}
    /\ chunks = <<>>
    /\ temp_file = <<>>

\* C9 as stated: the number of chunks is ceil((len - overlap) / (max_chars -
\* overlap)), and a text shorter than max_chars gives exactly one chunk
\* (stated here for non-empty texts, where it already fails).
C9_AsStated ==
  (cpc = "done" /\ ValidWindow /\ content # <<>>) =>
    /\ Len(chunks) = CeilDiv(Len(content) - overlap, max_chars - overlap)
    /\ Len(content) < max_chars => Len(chunks) = 1

\* C9 amended: the number of chunks (and of records written) is
\* ceil(len / (max_chars - overlap)), and a non-empty text of at most
\* max_chars - overlap characters gives exactly one chunk.
C9_ChunkCount ==
  (cpc = "done" /\ ValidWindow) =>
    /\ Len(chunks) = CeilDiv(Len(content), max_chars - overlap)
    /\ Len(temp_file) = Len(chunks)
    /\ (1 <= Len(content) /\ Len(content) <= max_chars - overlap)
          => Len(chunks) = 1

C9_Witness ==
  /\ cpc = "done"
  /\ ValidWindow
  /\ overlap > 0
  /\ Len(chunks) >= 3
  /\ Len(chunks) # CeilDiv(Len(content) - overlap, max_chars - overlap)

\* C10: chunk k is the window text[s : s + max_chars] with s = (k-1) * step,
\* step = max_chars - overlap, for every s < len(text) in increasing order,
\* and the windows contain every character position.
WindowAt(k) ==
  LET s == (k - 1) * (max_chars - overlap)
  IN SubSeq(content, s + 1, Min(s + max_chars, Len(content)))

C10_Windows ==
  ValidWindow =>
    /\ \A k \in 1..Len(chunks) :
          /\ (k - 1) * (max_chars - overlap) < Len(content)
          /\ chunks[k] = WindowAt(k)
    /\ cpc = "done" =>
          /\ Len(chunks) * (max_chars - overlap) >= Len(content)
          /\ \A i \in 1..Len(temp_file) : temp_file[i].text = WindowAt(i)
          /\ \A q \in 1..Len(content) :
                \E k \in 1..Len(chunks) :
                   LET s == (k - 1) * (max_chars - overlap)
                   IN s < q /\ q <= s + Len(chunks[k])
                      /\ chunks[k][q - s] = content[q]

C10_Witness ==
  /\ cpc = "done"
  /\ ValidWindow
  /\ overlap > 0
  /\ Len(chunks) >= 2
  /\ Len(chunks[Len(chunks)]) < max_chars

-----------------------------------------------------------------------------
(* prompt_annealer.py: text helpers *)

NL == "\n"

\* "sep".join(parts)
RECURSIVE Join(_, _)
Join(parts, sep) ==
  IF parts = <<>> THEN <<>>
  ELSE IF Len(parts) = 1 THEN parts[1]
  ELSE parts[1] \o <<sep>> \o Join(Tail(parts), sep)

\* the pieces of t between occurrences of sep (empty pieces included);
\* cur is the piece being read
RECURSIVE Pieces(_, _, _)
Pieces(t, sep, cur) ==
  IF t = <<>> THEN <<cur>>
  ELSE IF t[1] = sep THEN <<cur>> \o Pieces(Tail(t), sep, <<>>)
  ELSE Pieces(Tail(t), sep, Append(cur, t[1]))

\* str.splitlines(): no line for an empty text, none after a final newline
SplitLines(t) ==
  IF t = <<>> THEN <<>>
  ELSE LET ps == Pieces(t, NL, <<>>)
       IN IF ps[Len(ps)] = <<>> THEN SubSeq(ps, 1, Len(ps) - 1) ELSE ps

\* str.split(): the maximal runs of non-whitespace
SplitWords(line) ==
  LET NonEmpty(w) == w # <<>> IN SelectSeq(Pieces(line, " ", <<>>), NonEmpty)

-----------------------------------------------------------------------------
(* prompt_annealer.py: mutate_prompt (lines 127-147) *)

IndexPermutations(n) == { f \in [1..n -> 1..n] : \A i, j \in 1..n : f[i] = f[j] => i = j }

RemoveAt(lines, idx) == SubSeq(lines, 1, idx - 1) \o SubSeq(lines, idx + 1, Len(lines))

\* action "delete" with the drawn index (lines 133-135)
MutDelete_Unguarded(lines) == { RemoveAt(lines, idx) : idx \in 1..Len(lines) }

MutDelete(lines) ==
  IF Len(lines) > 1 THEN { RemoveAt(lines, idx) : idx \in 1..Len(lines) } ELSE {lines}

\* action "swap" with the two sampled indexes (lines 136-138)
MutSwap(lines) ==
  IF Len(lines) > 1
  THEN { [lines EXCEPT ![ab[1]] = lines[ab[2]], ![ab[2]] = lines[ab[1]]] :
           ab \in { x \in (1..Len(lines)) \X (1..Len(lines)) : x[1] # x[2] } }
  ELSE {lines}

\* action "shuffle" (lines 139-140)
MutShuffle(lines) ==
  { [i \in 1..Len(lines) |-> lines[f[i]]] : f \in IndexPermutations(Len(lines)) }

\* action "trim" with the drawn index and the drawn cut of 1..3 tokens
\* (lines 141-146)
TrimLine(line, cut) ==
  LET tokens == SplitWords(line) IN
  IF Len(tokens) > 4
  THEN Join(SubSeq(tokens, 1, Max(1, Len(tokens) - cut)), " ")
  ELSE line

MutTrim(lines) ==
  { [lines EXCEPT ![idx] = TrimLine(lines[idx], cut)] :
      idx \in 1..Len(lines), cut \in 1..3 }

\* every list mutate_prompt can return for `lines`
mutate_prompt(lines) ==
  IF lines = <<>> THEN {lines}
  ELSE MutDelete(lines) \cup MutSwap(lines) \cup MutShuffle(lines) \cup MutTrim(lines)

-----------------------------------------------------------------------------
(* prompt_annealer.py: evaluate_prompt (lines 54-124) *)

\* What the oracle command prints for one sample, as its list of tokens;
\* <<>> is a run that failed or printed nothing.
OutputPool == { <<>>, <<"x">>, <<"x", "y">> }

\* all lists of n oracle outputs
OutputLists(n) == [1..n -> OutputPool]

\* What the embedding model may return for an empty output: the zero
\* vector, or a unit vector of its own (a transformer encoder embeds the
\* empty string as its special tokens).
EmptyEmbeddings == { <<0, 0, 0>>, <<0, 0, 1>> }

\* model.encode: the embedding model is external; here each non-empty output
\* has a fixed axis-aligned vector, the empty output the vector the model
\* was drawn with
Encode(out) ==
  IF out = <<>> THEN empty_embedding
  ELSE IF out = <<"x">> THEN <<1, 0, 0>>
  ELSE <<0, 1, 0>>

EncodeAll(outs) == [i \in 1..Len(outs) |-> Encode(outs[i])]

Dot(v, w) == v[1] * w[1] + v[2] * w[2] + v[3] * w[3]

Abs(x) == IF x < 0 THEN -x ELSE x

\* np.linalg.norm, exact on axis-aligned vectors
Norm(v) == Abs(v[1]) + Abs(v[2]) + Abs(v[3])

\* lines 110-111, in thousandths
Cosine(v, w) ==
  LET denom == Norm(v) * Norm(w)
  IN IF denom # 0 THEN (1000 * Dot(v, w)) \div denom ELSE 0

RECURSIVE SumSeq(_)
SumSeq(q) == IF q = <<>> THEN 0 ELSE q[1] + SumSeq(Tail(q))

RECURSIVE Concat(_)
Concat(qs) == IF qs = <<>> THEN <<>> ELSE qs[1] \o Concat(Tail(qs))

\* lines 108-113: zip pairs the two lists up to the shorter one
AvgSim(vectors, base_vectors) ==
  LET n    == Min(Len(vectors), Len(base_vectors))
      sims == [i \in 1..n |-> Cosine(vectors[i], base_vectors[i])]
  IN IF sims # <<>> THEN SumSeq(sims) \div Len(sims) ELSE 0

\* 1000 * log2(n), rounded, for the token counts of the model
Log2Milli(n) == <<0, 1000, 1585, 2000, 2322, 2585, 2807, 3000>>[n]

\* shannon_entropy (lines 54-65), in thousandths of a bit
shannon_entropy(tokens) ==
  IF tokens = <<>> THEN 0
  ELSE LET total   == Len(tokens)
           kinds   == { tokens[i] : i \in 1..total }
           freq(k) == Cardinality({ i \in 1..total : tokens[i] = k })
           RECURSIVE Weighted(_)
           Weighted(K) ==
             IF K = {} THEN 0
             ELSE LET k == CHOOSE x \in K : TRUE
                  IN freq(k) * Log2Milli(freq(k)) + Weighted(K \ {k})
       IN (total * Log2Milli(total) - Weighted(kinds)) \div total

\* compress_size (lines 68-86): zstd is external; a short text does not
\* compress, so the size is the frame overhead plus the text's bytes
compress_size(text) == 9 + Len(text)

NoCandidate == [text |-> <<>>, score |-> 0, length |-> 0, similarity |-> 0, entropy |-> 0]

\* evaluate_prompt with the oracle's outputs for the samples given;
\* score, similarity and entropy are in thousandths
evaluate_prompt(prompt_text, outs, base_vectors) ==
  LET avg_sim    == AvgSim(EncodeAll(outs), base_vectors)
      entropy    == shannon_entropy(Concat(outs))
      compressed == compress_size(prompt_text)
  IN [text       |-> prompt_text,
      score      |-> 1000 * compressed + 100 * entropy - 1000 * avg_sim,
      length     |-> Len(prompt_text),
      similarity |-> avg_sim,
      entropy    |-> entropy]

-----------------------------------------------------------------------------
(* prompt_annealer.py: anneal (lines 150-192) *)

\* bounds of the annealer model
MaxIterations == 2

\* len(sample_inputs): main() passes at least one sample, anneal() takes any
SampleCounts == {0, 1}

DefaultTemperature == 100        \* 1.0, in hundredths
Temperatures       == {DefaultTemperature, 5000}

\* random.random(), in thousandths
Draws == {0, 250, 500, 999}

BaselinePool ==
  { <<>>,
    <<"f">>,
    <<"f", NL>>,
    <<"a", " ", "b", " ", "c", " ", "d", " ", "e", NL, "f">> }

NoFile        == [exists |-> FALSE, text |-> <<>>]
TextFile(t)   == [exists |-> TRUE, text |-> t]
StaleOutput   == TextFile(<<"z">>)

\* line 175: temp = max(0.01, temperature * (1.0 - step / iterations)), as
\* the fraction <<numerator, denominator>>
Temp(st, iters, temperature_c) ==
  <<Max(iters, temperature_c * (iters - st)), 100 * iters>>

\* math.exp(-delta / temp) in thousandths, for delta >= 0 in thousandths:
\* a step function on quarters of delta / temp, never 0 before the float
\* underflows (delta / temp above 745)
ExpTable ==
  <<1000, 778, 606, 472, 367, 286, 223, 173, 135, 105, 82, 63, 49, 38, 30,
    23, 18, 14, 11, 8, 6, 5, 4, 3, 2>>

ExpNeg(delta, temp) ==
  LET q == (delta * temp[2]) \div (250 * temp[1])
  IN IF q < Len(ExpTable) THEN ExpTable[q + 1]
     ELSE IF q < 2984 THEN 1
     ELSE 0

\* line 182
Accept_Greedy(delta, temp, u) == delta < 0

Accept(delta, temp, u) == delta < 0 \/ ExpNeg(delta, temp) > u

\* line 186
IsBetter_OrEqual(cand, best) == cand.score <= best.score

IsBetter_ByLength(cand, best) == cand.length < best.length

IsBetter(cand, best) == cand.score < best.score

\* line 188: output_path.write_text(candidate.text)
WriteBest_Deferred(out, cand) == out

WriteBest(out, cand) == TextFile(cand.text)

\* line 171
InitialBest_Placeholder(base) == NoCandidate

InitialBest(base) == base

AnnealInit0 ==
  /\ apc = "INIT"
  /\ iterations \in 0..MaxIterations
  /\ temperature \in Temperatures
  /\ num_samples \in SampleCounts
  /\ baseline_text \in BaselinePool
  /\ baseline_vectors = <<>>
  /\ baseline_candidate = NoCandidate
  /\ best_candidate = NoCandidate
  /\ current_lines = <<>>
  /\ step = 0
  /\ mutated_lines = <<>>
  /\ candidate = NoCandidate
  /\ draw = 0
  /\ accept = FALSE
  /\ output \in {NoFile, StaleOutput}
  /\ empty_embedding \in EmptyEmbeddings

\* lines 151-172: the baseline outputs, their embeddings, the baseline
\* candidate (the oracle is run again for it)
AnnealInit ==
  /\ apc = "INIT"
  /\ \E outs0 \in OutputLists(num_samples), outs1 \in OutputLists(num_samples) :
        /\ baseline_vectors' = EncodeAll(outs0)
        /\ baseline_candidate' = evaluate_prompt(baseline_text, outs1, baseline_vectors')
  /\ best_candidate' = InitialBest(baseline_candidate')
  /\ current_lines' = SplitLines(baseline_text)
  /\ apc' = "ITERATING"
  /\ UNCHANGED <<iterations, temperature, num_samples, baseline_text, step,
                 mutated_lines, candidate, draw, accept, output,
                 empty_embedding>>
  /\ UNCHANGED <<condVars, chunkVars, lessVars>>

\* one iteration of the loop (lines 174-189)
AnnealStep ==
  /\ apc = "ITERATING"
  /\ step < iterations
  /\ \E m \in mutate_prompt(current_lines), outs \in OutputLists(num_samples),
        u \in Draws :
        LET temp  == Temp(step, iterations, temperature)
            cand  == evaluate_prompt(Join(m, NL), outs, baseline_vectors)
            delta == cand.score - best_candidate.score
            acc   == Accept(delta, temp, u)
        IN /\ mutated_lines' = m
           /\ candidate' = cand
           /\ draw' = u
           /\ accept' = acc
           /\ current_lines' = IF acc THEN m ELSE current_lines
           /\ best_candidate' =
                IF acc /\ IsBetter(cand, best_candidate) THEN cand ELSE best_candidate
           /\ output' =
                IF acc /\ IsBetter(cand, best_candidate)
                THEN WriteBest(output, cand) ELSE output
  /\ step' = step + 1
  /\ UNCHANGED <<apc, iterations, temperature, num_samples, baseline_text,
                 baseline_vectors, baseline_candidate, empty_embedding>>
  /\ UNCHANGED <<condVars, chunkVars, lessVars>>

\* the loop is exhausted: baseline and best are printed (lines 191-192)
AnnealDone ==
  /\ apc = "ITERATING"
  /\ step >= iterations
  /\ apc' = "DONE"
  /\ UNCHANGED <<iterations, temperature, num_samples, baseline_text,
                 baseline_vectors, baseline_candidate, best_candidate,
                 current_lines, step, mutated_lines, candidate, draw, accept,
                 output, empty_embedding>>
  /\ UNCHANGED <<condVars, chunkVars, lessVars>>

\* the host process is terminated from outside between two iterations
AnnealKill ==
  /\ apc = "ITERATING"
  /\ apc' = "KILLED"
  /\ UNCHANGED <<iterations, temperature, num_samples, baseline_text,
                 baseline_vectors, baseline_candidate, best_candidate,
                 current_lines, step, mutated_lines, candidate, draw, accept,
                 output, empty_embedding>>
  /\ UNCHANGED <<condVars, chunkVars, lessVars>>

AnnealNext == AnnealInit \/ AnnealStep \/ AnnealDone \/ AnnealKill

-----------------------------------------------------------------------------
(* Properties of the annealer *)

\* C5: in every annealing step, with delta = candidate.score - best.score
\* (the best before the step), the step accepts, and the mutated lines become
\* current_lines, exactly when delta < 0 or the draw u is below
\* exp(-delta / temperature); a rejected step leaves current_lines alone; and
\* with delta = 0 every draw accepts.
C5_Metropolis ==
  [][ (apc = "ITERATING" /\ step' = step + 1) =>
        LET delta    == candidate'.score - best_candidate.score
            temp     == Temp(step, iterations, temperature)
            accepted == delta < 0 \/ draw' < ExpNeg(delta, temp)
        IN /\ accept' = accepted
           /\ accepted => current_lines' = mutated_lines'
           /\ ~accepted => current_lines' = current_lines
           /\ delta = 0 => current_lines' = mutated_lines' ]_vars

\* a step with delta = 0 and the largest draw, accepted, that changes the lines
C5_Witness ==
  /\ apc = "ITERATING"
  /\ step = 2
  /\ candidate.score = best_candidate.score
  /\ draw = 999
  /\ accept
  /\ current_lines = mutated_lines
  /\ candidate.text # best_candidate.text

\* C6: at every step boundary, and after a termination from outside at one,
\* once the best candidate is no longer the baseline candidate, the output
\* file exists and holds exactly the text of the current best candidate.
C6_PersistedImmediately ==
  (apc \in {"ITERATING", "DONE", "KILLED"} /\ best_candidate # baseline_candidate)
    => /\ output.exists
       /\ output.text = best_candidate.text

\* killed after a second improvement, the search having moved on
C6_Witness ==
  /\ apc = "KILLED"
  /\ step < iterations
  /\ best_candidate.score < baseline_candidate.score
  /\ output = TextFile(best_candidate.text)
  /\ output.text # baseline_text

\* C7: a run with iterations = 0 performs no loop iteration (no mutation, no
\* evaluation of a mutated candidate, no acceptance test, no write), can only
\* go on to DONE, and at DONE the best candidate is the baseline candidate.
C7_ZeroIterations ==
  iterations = 0 =>
    /\ step = 0
    /\ candidate = NoCandidate
    /\ mutated_lines = <<>>
    /\ ~accept
    /\ output \in {NoFile, StaleOutput}
    /\ apc \in {"INIT", "ITERATING", "DONE", "KILLED"}
    /\ apc = "ITERATING" => (ENABLED AnnealDone /\ ~ENABLED AnnealStep)
    /\ apc \in {"ITERATING", "DONE"} =>
          /\ best_candidate = baseline_candidate
          /\ best_candidate.text = baseline_text
          /\ current_lines = SplitLines(baseline_text)

C7_Witness ==
  /\ iterations = 0
  /\ apc = "DONE"
  /\ baseline_text # <<>>
  /\ best_candidate = baseline_candidate
  /\ best_candidate.score # 0

\* the oracle yielded no baseline output: every baseline run printed nothing
\* (or there was no sample to run it on)
NoBaselineOutput ==
  /\ apc # "INIT"
  /\ \A i \in 1..Len(baseline_vectors) : baseline_vectors[i] = empty_embedding

\* C12: a run whose oracle yields no baseline output fails in INIT: it enters
\* no iteration, accepts no candidate, writes no artifact and has no best
\* candidate.
C12_FailsInInit ==
  NoBaselineOutput =>
    /\ apc = "FAILED"
    /\ step = 0
    /\ ~accept
    /\ output \in {NoFile, StaleOutput}
    /\ best_candidate = NoCandidate

\* the token prefixes a trim may leave: at least one token, fewer than all
IsProperPrefix(p, q) ==
  /\ Len(p) >= 1
  /\ Len(p) < Len(q)
  /\ p = SubSeq(q, 1, Len(p))

\* what mutate_prompt can do to the lines the annealer holds
C14_Operators ==
  apc \in {"ITERATING", "DONE", "KILLED"} =>
    LET lines == current_lines IN
    /\ Len(lines) < 2 => (MutDelete(lines) = {lines} /\ MutSwap(lines) = {lines})
    /\ \A idx \in 1..Len(lines), cut \in 1..3 :
          LET toks == SplitWords(lines[idx])
              tl   == TrimLine(lines[idx], cut)
          IN /\ Len(toks) <= 4 => tl = lines[idx]
             /\ Len(toks) > 4 => IsProperPrefix(SplitWords(tl), toks)
    /\ lines # <<>> => <<>> \notin mutate_prompt(lines)
    /\ lines = <<>> => mutate_prompt(lines) = {lines}

\* what an annealing step does with the mutation
C14_Step ==
  (apc = "ITERATING" /\ step' = step + 1) =>
    /\ mutated_lines' \in mutate_prompt(current_lines)
    /\ current_lines # <<>> => mutated_lines' # <<>>
    /\ ( /\ Len(current_lines) < 2
         /\ \A i \in 1..Len(current_lines) : Len(SplitWords(current_lines[i])) <= 4 )
       => mutated_lines' = current_lines
    /\ ~accept' => current_lines' = current_lines
    /\ candidate'.text = Join(mutated_lines', NL)
    /\ candidate'.length = Len(candidate'.text)
    /\ apc' = "ITERATING"

\* C14: delete and swap on fewer than 2 lines and trim on a line of at most
\* 4 tokens return the input; a non-empty input never yields an empty
\* output; a trimmed line keeps at least one token; the step leaves the
\* caller's lines alone unless it accepts; and a no-op mutation is evaluated
\* as an ordinary candidate, the run staying in ITERATING.
C14_NoOpMutation == []C14_Operators /\ [][C14_Step]_vars

\* a no-op mutation of a one-line prompt, evaluated and accepted
C14_Witness ==
  /\ apc = "ITERATING"
  /\ step = 1
  /\ current_lines = << <<"f">> >>
  /\ mutated_lines = current_lines
  /\ candidate.text = <<"f">>
  /\ accept

\* C16: at DONE the output file exists and holds the text of the final best
\* candidate.
C16_OutputHoldsBest ==
  apc = "DONE" => output = TextFile(best_candidate.text)

\* the candidate evaluate_prompt returns for the current lines when every
\* sample's oracle run fails or prints nothing
FailedOracleCandidate ==
  evaluate_prompt(Join(current_lines, NL), [i \in 1..num_samples |-> <<>>],
                  baseline_vectors)

\* C17: a candidate evaluated on an oracle that returns nothing on every
\* sample has similarity 0 and entropy 0 (and a score made of them).
C17_ZeroOutputs ==
  apc \in {"ITERATING", "DONE", "KILLED"} =>
    /\ FailedOracleCandidate.similarity = 0
    /\ FailedOracleCandidate.entropy = 0
    /\ FailedOracleCandidate.score = 1000 * compress_size(Join(current_lines, NL))

\* C18: a step accepted with delta >= 0 makes the mutated lines current and
\* leaves the best candidate and the output file alone; a rejected step
\* leaves the current lines, the best candidate and the output file alone.
C18_AcceptedNotBest ==
  [][ (apc = "ITERATING" /\ step' = step + 1) =>
        LET delta == candidate'.score - best_candidate.score
        IN /\ (accept' /\ delta >= 0) =>
                /\ current_lines' = mutated_lines'
                /\ best_candidate' = best_candidate
                /\ output' = output
           /\ ~accept' => UNCHANGED <<current_lines, best_candidate, output>> ]_vars

\* a strictly worse candidate accepted by the draw: the lines moved on, the
\* best candidate is still the baseline and nothing was written
C18_Witness ==
  /\ apc = "ITERATING"
  /\ step = 1
  /\ accept
  /\ candidate.score > best_candidate.score
  /\ current_lines = mutated_lines
  /\ current_lines # SplitLines(baseline_text)
  /\ best_candidate = baseline_candidate
  /\ output = NoFile

\* the best score never exceeds the baseline's or the last candidate's
C19_Bounded ==
  apc \in {"ITERATING", "DONE", "KILLED"} =>
    /\ best_candidate.score <= baseline_candidate.score
    /\ step >= 1 => best_candidate.score <= candidate.score

\* the best score is the running minimum
C19_Running ==
  /\ (apc = "INIT" /\ apc' = "ITERATING") =>
        best_candidate'.score = baseline_candidate'.score
  /\ (apc = "ITERATING" /\ step' = step + 1) =>
        best_candidate'.score = Min(best_candidate.score, candidate'.score)
  /\ apc = "ITERATING" => best_candidate'.score <= best_candidate.score

\* C19: the best score starts as the baseline candidate's and after every
\* step is the smaller of the previous best score and the score of the
\* candidate just evaluated, so it is the minimum over the baseline and all
\* candidates evaluated so far; it never increases and never exceeds the
\* baseline candidate's score.
C19_BestIsMinimum == []C19_Bounded /\ [][C19_Running]_vars

\* after two steps: the first improved on the baseline, the second was
\* accepted although worse, and the best is still the first
C19_Witness ==
  /\ apc = "ITERATING"
  /\ step = 2
  /\ best_candidate.score < baseline_candidate.score
  /\ candidate.score > best_candidate.score
  /\ accept
  /\ output = TextFile(best_candidate.text)

-----------------------------------------------------------------------------
(* lesson_compactor.py *)

\* norm (lines 8-9)
norm(t) == Strip(CollapseSpaces(Lower(t)))

\* shingle length k (default argument of shingles, line 11)
LessonShingleK == 8

\* shingles (lines 11-13)
lesson_shingles(text) ==
  LET t == norm(text) IN
  IF t # <<>>
  THEN { SubSeq(t, i, i + LessonShingleK - 1) :
           i \in 1..Max(0, Len(t) - LessonShingleK + 1) }
  ELSE {}

\* jacc (lines 15-18), as the fraction <<numerator, denominator>>
jacc(a, b) ==
  IF a = {} \/ b = {} THEN <<0, 1>>
  ELSE LET u == Cardinality(a \cup b)
           i == Cardinality(a \cap b)
       IN IF u # 0 THEN <<i, u>> ELSE <<0, 1>>

\* THRESH (line 33), in percent
LessonThresh == 90

\* jacc(sh, csh) >= THRESH (line 38)
AtLeastThresh(j) == j[1] * 100 >= LessonThresh * j[2]

\* bound of the lesson model: the number of lesson files
MaxLessons == 3

LessonBase    == <<"a", "b", "c", "d", "e", "f", "g", "h", "i", "j", "k", "l", "m", "n", "o", "p">>
LessonQ       == LessonBase \o <<"q">>
LessonR       == LessonBase \o <<"r">>
LessonBasePad == LessonBase \o <<" ", " ">>
LessonQPad    == LessonQ \o <<" ", " ">>

LessonFile(name, text) == [name |-> name, text |-> text]

\* the lesson files of the model; the text of an unreadable file is read
\* as "" (read_text, lines 4-6)
LessonPool ==
  { LessonFile("qpad.yml", LessonQPad),
    LessonFile("pad.yml", LessonBasePad),
    LessonFile("q.yml", LessonQ),
    LessonFile("r.yml", LessonR),
    LessonFile("base.yml", LessonBase),
    LessonFile("unreadable.yml", <<>>) }

\* the directory listings: lists of distinct files
LessonListings ==
  { l \in SeqsUpTo(LessonPool, MaxLessons) :
      \A i, j \in 1..Len(l) : i # j => l[i].name # l[j].name }

NoManifest == [exists |-> FALSE, merged |-> <<>>]

\* line 28: (f, t, shingles(t), len(t))
Meta(file) ==
  [f |-> file.name, t |-> file.text, sh |-> lesson_shingles(file.text),
   n |-> Len(file.text)]

\* line 30: the sort key
SortKey_Ascending(m) == m.n

SortKey(m) == -m.n

\* list.sort is stable: an element goes behind every element whose key is
\* not greater
RECURSIVE InsertByKey(_, _)
InsertByKey(sorted, m) ==
  IF sorted = <<>> THEN <<m>>
  ELSE IF SortKey(sorted[1]) <= SortKey(m)
       THEN <<sorted[1]>> \o InsertByKey(Tail(sorted), m)
       ELSE <<m>> \o sorted

RECURSIVE SortMetas(_)
SortMetas(ms) ==
  IF ms = <<>> THEN <<>>
  ELSE InsertByKey(SortMetas(SubSeq(ms, 1, Len(ms) - 1)), ms[Len(ms)])

\* `dup = None`
NoDup == ""

\* lines 36-39: the file of the first canonical at least THRESH similar
RECURSIVE FindDup(_, _)
FindDup(sh, cs) ==
  IF cs = <<>> THEN NoDup
  ELSE IF AtLeastThresh(jacc(sh, cs[1].sh)) THEN cs[1].f
  ELSE FindDup(sh, Tail(cs))

LessonInit ==
  /\ lpc = "start"
  /\ lessons \in LessonListings
  /\ metas = <<>>
  /\ visited = 0
  /\ canon = <<>>
  /\ merged = <<>>
  /\ lesson_dir = { lessons[i].name : i \in 1..Len(lessons) }
  /\ archive_dir = {}
  /\ manifest = <<>>
  /\ manifest_file = NoManifest

\* lines 21-24: no lesson file
LessonsNone ==
  /\ lpc = "start"
  /\ lessons = <<>>
  /\ lpc' = "none"
  /\ UNCHANGED <<lessons, metas, visited, canon, merged, lesson_dir,
                 archive_dir, manifest, manifest_file>>
  /\ UNCHANGED <<condVars, chunkVars, annVars>>

\* lines 25-33: read every file, sort longest first
LessonsRead ==
  /\ lpc = "start"
  /\ lessons # <<>>
  /\ metas' = SortMetas([i \in 1..Len(lessons) |-> Meta(lessons[i])])
  /\ canon' = <<>>
  /\ merged' = <<>>
  /\ lpc' = "scan"
  /\ UNCHANGED <<lessons, visited, lesson_dir, archive_dir, manifest,
                 manifest_file>>
  /\ UNCHANGED <<condVars, chunkVars, annVars>>

\* one iteration of the dedup loop (lines 35-43)
LessonVisit ==
  /\ lpc = "scan"
  /\ visited < Len(metas)
  /\ LET m   == metas[visited + 1]
         dup == FindDup(m.sh, canon)
     IN IF dup # NoDup
        THEN /\ merged' = Append(merged, <<m.f, dup>>)
             /\ UNCHANGED canon
        ELSE /\ canon' = Append(canon, [f |-> m.f, t |-> m.t, sh |-> m.sh])
             /\ UNCHANGED merged
  /\ visited' = visited + 1
  /\ UNCHANGED <<lpc, lessons, metas, lesson_dir, archive_dir, manifest,
                 manifest_file>>
  /\ UNCHANGED <<condVars, chunkVars, annVars>>

\* lines 45-50: the loop is over; the directories and the empty manifest
LessonsPrepare ==
  /\ lpc = "scan"
  /\ visited = Len(metas)
  /\ manifest' = <<>>
  /\ lpc' = "archive"
  /\ UNCHANGED <<lessons, metas, visited, canon, merged, lesson_dir,
                 archive_dir, manifest_file>>
  /\ UNCHANGED <<condVars, chunkVars, annVars>>

\* one iteration of the archive loop (lines 51-53)
LessonArchive ==
  /\ lpc = "archive"
  /\ Len(manifest) < Len(merged)
  /\ LET src == merged[Len(manifest) + 1][1]
         dst == merged[Len(manifest) + 1][2]
     IN /\ lesson_dir' = lesson_dir \ {src}
        /\ archive_dir' = archive_dir \cup {src}
        /\ manifest' = Append(manifest, [src |-> src, into |-> dst])
  /\ UNCHANGED <<lpc, lessons, metas, visited, canon, merged, manifest_file>>
  /\ UNCHANGED <<condVars, chunkVars, annVars>>

\* lines 55-56: the manifest is written
LessonsWrite ==
  /\ lpc = "archive"
  /\ Len(manifest) = Len(merged)
  /\ manifest_file' = [exists |-> TRUE, merged |-> manifest]
  /\ lpc' = "done"
  /\ UNCHANGED <<lessons, metas, visited, canon, merged, lesson_dir,
                 archive_dir, manifest>>
  /\ UNCHANGED <<condVars, chunkVars, annVars>>

LessonsNext ==
  \/ LessonsNone \/ LessonsRead \/ LessonVisit \/ LessonsPrepare
  \/ LessonArchive \/ LessonsWrite

-----------------------------------------------------------------------------
(* Properties of the lesson compactor *)

\* the text of the lesson file `name`
LessonText(name) ==
  lessons[CHOOSE i \in 1..Len(lessons) : lessons[i].name = name].text

\* similarity of at least 0.90 between the artifacts at two positions of metas
Similar(i, j) ==
  LET j2 == jacc(metas[i].sh, metas[j].sh) IN j2[1] * 10 >= 9 * j2[2]

CanonNames == { canon[k].f : k \in 1..Len(canon) }
MergedSrcs == { merged[k][1] : k \in 1..Len(merged) }

\* the positions before i whose artifact is an accepted canonical similar to
\* the artifact at i
SimilarCanonsBefore(i) ==
  { j \in 1..(i - 1) : metas[j].f \in CanonNames /\ Similar(i, j) }

MinOf(S) == CHOOSE x \in S : \A y \in S : x <= y

\* C15: the artifacts are visited in length-descending order; a visited
\* artifact is archived exactly when an already accepted canonical is at
\* least 0.90 similar, into the first such canonical; so `into` of every
\* manifest entry is never archived and at least as long as `src`; and the
\* manifest has exactly one entry per archived artifact.
C15_Compaction ==
  lpc \in {"scan", "archive", "done"} =>
    /\ Len(metas) = Len(lessons)
    /\ { metas[i].f : i \in 1..Len(metas) } = { lessons[i].name : i \in 1..Len(lessons) }
    /\ \A i, j \in 1..Len(metas) : i < j => metas[i].n >= metas[j].n
    /\ \A i \in 1..visited :
          /\ (metas[i].f \in MergedSrcs) <=> (SimilarCanonsBefore(i) # {})
          /\ (metas[i].f \in MergedSrcs) <=> (metas[i].f \notin CanonNames)
          /\ SimilarCanonsBefore(i) # {} =>
                \E k \in 1..Len(merged) :
                   merged[k] = <<metas[i].f, metas[MinOf(SimilarCanonsBefore(i))].f>>
    /\ Len(merged) = Cardinality(MergedSrcs)
    /\ \A k \in 1..Len(manifest) :
          /\ manifest[k].src = merged[k][1]
          /\ manifest[k].into = merged[k][2]
          /\ manifest[k].into \notin MergedSrcs
          /\ manifest[k].into \in lesson_dir
          /\ manifest[k].into \notin archive_dir
          /\ manifest[k].src \in archive_dir
          /\ Len(LessonText(manifest[k].into)) >= Len(LessonText(manifest[k].src))
    /\ archive_dir = { manifest[k].src : k \in 1..Len(manifest) }
    /\ lpc = "done" =>
          /\ manifest_file = [exists |-> TRUE, merged |-> manifest]
          /\ Len(manifest_file.merged) = Cardinality(archive_dir)
          /\ archive_dir = MergedSrcs
          /\ lesson_dir = CanonNames

\* a finished run that archived one artifact and kept a shorter one as
\* canonical although it is 0.90 similar to the archived one
C15_Witness ==
  /\ lpc = "done"
  /\ Len(manifest_file.merged) = 1
  /\ \E i, j \in 1..Len(metas) :
        /\ i < j
        /\ metas[i].f \in archive_dir
        /\ metas[j].f \in lesson_dir
        /\ Similar(j, i)

-----------------------------------------------------------------------------
(* Specifications: one per tool; the other tools' variables stay idle *)

InitCondense ==
  /\ CondenseInit
  /\ cpc = "off" /\ content = <<>> /\ max_chars = 1 /\ overlap = 0
  /\ start = 0 /\ chunks = <<>> /\ temp_file = <<>>
  /\ apc = "off" /\ iterations = 0 /\ temperature = DefaultTemperature
  /\ num_samples = 0 /\ baseline_text = <<>> /\ baseline_vectors = <<>>
  /\ baseline_candidate = NoCandidate /\ best_candidate = NoCandidate
  /\ current_lines = <<>> /\ step = 0 /\ mutated_lines = <<>>
  /\ candidate = NoCandidate /\ draw = 0 /\ accept = FALSE /\ output = NoFile
  /\ empty_embedding = <<0, 0, 0>>
  /\ lpc = "off" /\ lessons = <<>> /\ metas = <<>> /\ visited = 0
  /\ canon = <<>> /\ merged = <<>> /\ lesson_dir = {} /\ archive_dir = {}
  /\ manifest = <<>> /\ manifest_file = NoManifest

InitChunk ==
  /\ ChunkInit
  /\ fs = [p \in Paths |-> Absent] /\ pc = "off" /\ jacc_min = DefaultJaccMin
  /\ pos = 0 /\ keep = <<>> /\ archived = <<>> /\ seen_hash = {}
  /\ buckets = <<>> /\ ret = <<0, 0>> /\ corpus0 = <<>> /\ runs = 0
  /\ apc = "off" /\ iterations = 0 /\ temperature = DefaultTemperature
  /\ num_samples = 0 /\ baseline_text = <<>> /\ baseline_vectors = <<>>
  /\ baseline_candidate = NoCandidate /\ best_candidate = NoCandidate
  /\ current_lines = <<>> /\ step = 0 /\ mutated_lines = <<>>
  /\ candidate = NoCandidate /\ draw = 0 /\ accept = FALSE /\ output = NoFile
  /\ empty_embedding = <<0, 0, 0>>
  /\ lpc = "off" /\ lessons = <<>> /\ metas = <<>> /\ visited = 0
  /\ canon = <<>> /\ merged = <<>> /\ lesson_dir = {} /\ archive_dir = {}
  /\ manifest = <<>> /\ manifest_file = NoManifest

InitAnneal ==
  /\ AnnealInit0
  /\ fs = [p \in Paths |-> Absent] /\ pc = "off" /\ jacc_min = DefaultJaccMin
  /\ pos = 0 /\ keep = <<>> /\ archived = <<>> /\ seen_hash = {}
  /\ buckets = <<>> /\ ret = <<0, 0>> /\ corpus0 = <<>> /\ runs = 0
  /\ cpc = "off" /\ content = <<>> /\ max_chars = 1 /\ overlap = 0
  /\ start = 0 /\ chunks = <<>> /\ temp_file = <<>>
  /\ lpc = "off" /\ lessons = <<>> /\ metas = <<>> /\ visited = 0
  /\ canon = <<>> /\ merged = <<>> /\ lesson_dir = {} /\ archive_dir = {}
  /\ manifest = <<>> /\ manifest_file = NoManifest

SpecCondense == InitCondense /\ [][CondenseNext]_vars

SpecChunk == InitChunk /\ [][ChunkNext]_vars

SpecAnneal == InitAnneal /\ [][AnnealNext]_vars

InitLessons ==
  /\ LessonInit
  /\ fs = [p \in Paths |-> Absent] /\ pc = "off" /\ jacc_min = DefaultJaccMin
  /\ pos = 0 /\ keep = <<>> /\ archived = <<>> /\ seen_hash = {}
  /\ buckets = <<>> /\ ret = <<0, 0>> /\ corpus0 = <<>> /\ runs = 0
  /\ cpc = "off" /\ content = <<>> /\ max_chars = 1 /\ overlap = 0
  /\ start = 0 /\ chunks = <<>> /\ temp_file = <<>>
  /\ apc = "off" /\ iterations = 0 /\ temperature = DefaultTemperature
  /\ num_samples = 0 /\ baseline_text = <<>> /\ baseline_vectors = <<>>
  /\ baseline_candidate = NoCandidate /\ best_candidate = NoCandidate
  /\ current_lines = <<>> /\ step = 0 /\ mutated_lines = <<>>
  /\ candidate = NoCandidate /\ draw = 0 /\ accept = FALSE /\ output = NoFile
  /\ empty_embedding = <<0, 0, 0>>

SpecLessons == InitLessons /\ [][LessonsNext]_vars

=============================================================================
